---------------------------- MODULE Spec2Model ----------------------------
(***************************************************************************)
(* doclint: an MCP server with two tools, `lint` (extraction proxy) and    *)
(* `compare` (alignment engine), modelled from src/index.js.               *)
(*                                                                         *)
(* JavaScript strings are sequences of one-character strings, so that      *)
(* JSON.stringify, toLowerCase and the term regex act on characters.       *)
(* A JavaScript value is a record [t, items]: t is the type tag and items  *)
(* the list of strings it carries (one for a string, the elements for an   *)
(* array of strings, the digits for a number, none otherwise).             *)
(***************************************************************************)
EXTENDS Integers, Sequences, FiniteSets, TLC

VARIABLES pc, request, upstream, upstreamCalls, response

vars == <<pc, request, upstream, upstreamCalls, response>>

-----------------------------------------------------------------------------
(* Bounds of the model *)

\* longest array of strings offered as a dimension value
MaxItems == 2

\* longest reply text of the language model, in characters
MaxReplyLen == 3

-----------------------------------------------------------------------------
(* JavaScript values *)

Str(s) == [t |-> "string", items |-> <<s>>]
Arr(a) == [t |-> "array", items |-> a]
Undefined == [t |-> "undefined", items |-> <<>>]
Null == [t |-> "null", items |-> <<>>]
Zero == [t |-> "number", items |-> << <<"0">> >>]
EmptyObject == [t |-> "object", items |-> <<>>]

\* JavaScript ToBoolean, as used by `!ext`, `!int`, `ext || null`, `name || "unknown"`
Truthy(v) ==
    CASE v.t = "undefined" -> FALSE
      [] v.t = "null" -> FALSE
      [] v.t = "string" -> Len(v.items[1]) > 0
      [] v.t = "number" -> v.items[1] # <<"0">>
      [] OTHER -> TRUE

\* `x || null`
OrNull(v) == IF Truthy(v) THEN v ELSE Null

-----------------------------------------------------------------------------
(* JSON.stringify(...).toLowerCase() and the term regex *)

RECURSIVE Flatten(_)
Flatten(ss) == IF ss = <<>> THEN <<>> ELSE Head(ss) \o Flatten(Tail(ss))

\* JSON.stringify of one character of a string: quote and backslash are escaped
EscapeChar(c) ==
    IF c = "\"" THEN <<"\\", "\"">>
    ELSE IF c = "\\" THEN <<"\\", "\\">>
    ELSE <<c>>

QuoteString(s) == <<"\"">> \o Flatten([i \in 1..Len(s) |-> EscapeChar(s[i])]) \o <<"\"">>

\* JSON.stringify of a value (only ever applied to truthy values)
Stringify(v) ==
    CASE v.t = "string" -> QuoteString(v.items[1])
      [] v.t = "array" ->
            <<"[">>
            \o Flatten([i \in 1..Len(v.items) |->
                  (IF i > 1 THEN <<",">> ELSE <<>>) \o QuoteString(v.items[i])])
            \o <<"]">>
      [] v.t = "number" -> v.items[1]
      [] v.t = "object" -> <<"{", "}">>
      [] v.t = "null" -> <<"n", "u", "l", "l">>

UpperCase == <<"A","B","C","D","E","F","G","H","I","J","K","L","M",
               "N","O","P","Q","R","S","T","U","V","W","X","Y","Z">>
LowerCase == <<"a","b","c","d","e","f","g","h","i","j","k","l","m",
               "n","o","p","q","r","s","t","u","v","w","x","y","z">>
Digits == <<"0","1","2","3","4","5","6","7","8","9">>

UpperToLower == [c \in {UpperCase[k] : k \in 1..26} |->
                    LowerCase[CHOOSE k \in 1..26 : UpperCase[k] = c]]

LowerChar(c) == IF c \in DOMAIN UpperToLower THEN UpperToLower[c] ELSE c

\* String.prototype.toLowerCase
ToLowerCase(s) == [i \in 1..Len(s) |-> LowerChar(s[i])]

\* the regex class \w
WordChars ==
    {UpperCase[k] : k \in 1..26} \cup {LowerCase[k] : k \in 1..26}
    \cup {Digits[k] : k \in 1..10} \cup {"_"}

IsWordChar(c) == c \in WordChars

\* the {4,} of the term regex
MinTermLen == 4

\* the positions of s where \b matches before a word character, and after one
WordStarts(s) ==
    {i \in 1..Len(s) : IsWordChar(s[i]) /\ (i = 1 \/ ~IsWordChar(s[i - 1]))}
WordEnds(s) ==
    {j \in 1..Len(s) : IsWordChar(s[j]) /\ (j = Len(s) \/ ~IsWordChar(s[j + 1]))}

\* new Set(str.match(/\b\w{4,}\b/g) || []): a match runs from a word boundary
\* to the next one and holds MinTermLen or more word characters
Terms(s) ==
    LET ends == WordEnds(s)
        EndOf(i) == CHOOSE j \in ends : j >= i /\ \A k \in ends : k >= i => j <= k
    IN  {SubSeq(s, i, EndOf(i)) :
            i \in {i \in WordStarts(s) : EndOf(i) - i + 1 >= MinTermLen}}

TermsOf(v) == Terms(ToLowerCase(Stringify(v)))

-----------------------------------------------------------------------------
(* Number.prototype.toFixed(2) of the quotient n/d of two small naturals *)

\* a plausible slip: the hundredths cut off, not rounded
HundredthsTruncated(n, d) == IF d = 0 THEN 0 ELSE (100 * n) \div d

\* the nearest number of hundredths, the larger one on a tie
Hundredths(n, d) == IF d = 0 THEN 0 ELSE (200 * n + d) \div (2 * d)

ToFixed2(n, d) ==
    LET h == Hundredths(n, d)
    IN  <<Digits[(h \div 100) + 1], ".", Digits[((h \div 10) % 10) + 1], Digits[(h % 10) + 1]>>

-----------------------------------------------------------------------------
(* handleCompare *)

Dimensions ==
    <<"capability", "inputs", "outputs", "when_to_use", "when_not_to_use", "constraints">>

DimSet == {Dimensions[k] : k \in 1..Len(Dimensions)}

\* `extracted.extraction?.[dim]`: nothing is read through an undefined or null
\* extraction, and a string has none of the dimension names as a property
ExtOf(extracted, dim) ==
    IF extracted.t = "object" /\ extracted.extraction.t = "object"
    THEN extracted.extraction.fields[dim]
    ELSE Undefined

\* `intended[dim]`
IntOf(intended, dim) ==
    IF intended.t = "object" THEN intended.fields[dim] ELSE Undefined

\* the property reads of the handler that raise a TypeError: the destructuring of
\* absent arguments, `extracted.extraction` and `intended[dim]` on undefined or null
CompareThrows(req) ==
    \/ ~req.hasArgs
    \/ req.extracted.t \in {"undefined", "null"}
    \/ req.intended.t \in {"undefined", "null"}

\* a plausible slip: the union built by concatenation, not as a Set
SimilarityOverConcat(extTerms, intTerms) ==
    IF Cardinality(extTerms) + Cardinality(intTerms) > 0
    THEN [num |-> Cardinality(extTerms \cap intTerms),
          den |-> Cardinality(extTerms) + Cardinality(intTerms)]
    ELSE [num |-> 0, den |-> 1]

\* intersection.length / union.size, or 0 when the union is empty, as a fraction
Similarity(extTerms, intTerms) ==
    IF Cardinality(extTerms \cup intTerms) > 0
    THEN [num |-> Cardinality(extTerms \cap intTerms),
          den |-> Cardinality(extTerms \cup intTerms)]
    ELSE [num |-> 0, den |-> 1]

\* a plausible slip: `similarity >= 0.5`
AtOrAboveThreshold(similarity) == 2 * similarity.num >= similarity.den

\* `similarity > 0.5`
AboveThreshold(similarity) == 2 * similarity.num > similarity.den

\* a plausible slip: `ext === undefined && int === undefined`
BothUndefined(ext, int) == ext.t = "undefined" /\ int.t = "undefined"

\* `!ext && !int`
BothAbsent(ext, int) == ~Truthy(ext) /\ ~Truthy(int)

\* `!ext || !int`
OneAbsent(ext, int) == ~Truthy(ext) \/ ~Truthy(int)

\* a plausible slip: the two issue kinds the wrong way round
OneSidedMismatchSwapped(dim, ext, int) ==
    [dimension |-> dim,
     issue |-> IF ~Truthy(ext) THEN "missing_in_intended" ELSE "missing_in_extraction",
     extracted |-> OrNull(ext),
     intended |-> OrNull(int)]

\* the Mismatch pushed when one side is absent
OneSidedMismatch(dim, ext, int) ==
    [dimension |-> dim,
     issue |-> IF ~Truthy(ext) THEN "missing_in_extraction" ELSE "missing_in_intended",
     extracted |-> OrNull(ext),
     intended |-> OrNull(int)]

\* the Mismatch pushed when the similarity is not above the threshold
TwoSidedMismatch(dim, ext, int, similarity) ==
    [dimension |-> dim,
     issue |-> "mismatch",
     similarity |-> ToFixed2(similarity.num, similarity.den),
     extracted |-> ext,
     intended |-> int]

\* a plausible slip: the `continue` after `alignmentScore++` left out, so that a
\* dimension absent on both sides is also pushed as a one-sided Mismatch
CompareDimensionNoContinue(acc, dim, ext, int) ==
    LET counted == [acc EXCEPT !.totalDimensions = @ + 1]
        scored == IF BothAbsent(ext, int)
                  THEN [counted EXCEPT !.alignmentScore = @ + 1]
                  ELSE counted
    IN  IF OneAbsent(ext, int)
        THEN [scored EXCEPT !.mismatches = Append(@, OneSidedMismatch(dim, ext, int))]
        ELSE LET similarity == Similarity(TermsOf(ext), TermsOf(int))
             IN  IF AboveThreshold(similarity)
                 THEN [scored EXCEPT !.alignmentScore = @ + 1]
                 ELSE [scored EXCEPT !.mismatches =
                         Append(@, TwoSidedMismatch(dim, ext, int, similarity))]

\* one iteration of the loop over the dimensions
CompareDimension(acc, dim, ext, int) ==
    LET counted == [acc EXCEPT !.totalDimensions = @ + 1]
    IN  IF BothAbsent(ext, int)
        THEN [counted EXCEPT !.alignmentScore = @ + 1]
        ELSE IF OneAbsent(ext, int)
        THEN [counted EXCEPT !.mismatches = Append(@, OneSidedMismatch(dim, ext, int))]
        ELSE LET similarity == Similarity(TermsOf(ext), TermsOf(int))
             IN  IF AboveThreshold(similarity)
                 THEN [counted EXCEPT !.alignmentScore = @ + 1]
                 ELSE [counted EXCEPT !.mismatches =
                         Append(@, TwoSidedMismatch(dim, ext, int, similarity))]

RECURSIVE CompareLoop(_, _, _)
CompareLoop(req, k, acc) ==
    IF k > Len(Dimensions) THEN acc
    ELSE CompareLoop(req, k + 1,
            CompareDimension(acc, Dimensions[k],
                ExtOf(req.extracted, Dimensions[k]), IntOf(req.intended, Dimensions[k])))

RECURSIVE Join(_, _)
Join(names, sep) ==
    IF Len(names) = 0 THEN ""
    ELSE IF Len(names) = 1 THEN names[1]
    ELSE names[1] \o sep \o Join(Tail(names), sep)

SuccessText == "Documentation aligns well with intent"

\* a plausible slip: the names taken from the end of the list first
RECURSIVE JoinReversed(_, _)
JoinReversed(names, sep) ==
    IF Len(names) = 0 THEN ""
    ELSE IF Len(names) = 1 THEN names[1]
    ELSE JoinReversed(Tail(names), sep) \o sep \o names[1]

RecommendationReversed(mismatches) ==
    IF Len(mismatches) = 0
    THEN SuccessText
    ELSE "Review these dimensions: "
         \o JoinReversed([k \in 1..Len(mismatches) |-> mismatches[k].dimension], ", ")

Recommendation(mismatches) ==
    IF Len(mismatches) = 0
    THEN SuccessText
    ELSE "Review these dimensions: "
         \o Join([k \in 1..Len(mismatches) |-> mismatches[k].dimension], ", ")

CompareResult(req) ==
    LET acc == CompareLoop(req, 1,
                  [alignmentScore |-> 0, totalDimensions |-> 0, mismatches |-> <<>>])
    IN  [alignment_score |-> ToFixed2(acc.alignmentScore, acc.totalDimensions),
         aligned_dimensions |-> acc.alignmentScore,
         total_dimensions |-> acc.totalDimensions,
         mismatches |-> acc.mismatches,
         recommendation |-> Recommendation(acc.mismatches)]

\* what the call of handleCompare ends in: its return value, or the TypeError it raises
HandleCompare(req) ==
    IF CompareThrows(req)
    THEN [kind |-> "thrown", isError |-> TRUE, error |-> "TypeError"]
    ELSE [kind |-> "result", isError |-> FALSE, result |-> CompareResult(req)]

-----------------------------------------------------------------------------
(* handleLint *)

\* the characters the model lets the language model reply with
ReplyChars == {"{", "}", "1", "x"}

\* JSON.parse on texts over ReplyChars: the only JSON texts are the empty object
\* and the numbers 1, 11, 111, ...; every other text raises a SyntaxError
JsonParse(text) ==
    IF text = <<"{", "}">> THEN [ok |-> TRUE, value |-> "object"]
    ELSE IF Len(text) > 0 /\ \A k \in 1..Len(text) : text[k] = "1"
    THEN [ok |-> TRUE, value |-> "number"]
    ELSE [ok |-> FALSE, value |-> "SyntaxError"]

\* responseText.match(/\{[\s\S]*\}/): from the first "{" to the last "}" after it
Opens(text) == {k \in 1..Len(text) : text[k] = "{"}
Closes(text) == {k \in 1..Len(text) : text[k] = "}"}
FirstOpen(text) == CHOOSE i \in Opens(text) : \A k \in Opens(text) : i <= k
LastClose(text) == CHOOSE j \in Closes(text) : \A k \in Closes(text) : k <= j
HasJsonMatch(text) ==
    Opens(text) # {} /\ Closes(text) # {} /\ FirstOpen(text) < LastClose(text)
JsonMatch(text) == SubSeq(text, FirstOpen(text), LastClose(text))

\* the try/catch around JSON.parse with its fallback: the value parsed, or the
\* message of the error that leaves the block
ParseReply(text) ==
    IF JsonParse(text).ok THEN JsonParse(text)
    ELSE IF HasJsonMatch(text)
    THEN IF JsonParse(JsonMatch(text)).ok
         THEN JsonParse(JsonMatch(text))
         ELSE [ok |-> FALSE, value |-> "Unexpected token in JSON"]
    ELSE [ok |-> FALSE, value |-> "Could not parse extraction response as JSON"]

\* the body of the try block of handleLint from the point where the awaited
\* upstream call settles: the error that leaves it, or the extraction it returns
LintTry(req, reply) ==
    IF reply.kind = "rejected" THEN [threw |-> TRUE, message |-> reply.message]
    ELSE IF reply.blocks = 0
    THEN [threw |-> TRUE, message |-> "Cannot read properties of undefined (reading 'text')"]
    ELSE LET parsed == ParseReply(reply.text)
         IN  IF ~parsed.ok THEN [threw |-> TRUE, message |-> parsed.value]
             ELSE IF parsed.value # "object"
             THEN [threw |-> TRUE, message |-> "Cannot create property 'tool_name' on number"]
             ELSE [threw |-> FALSE,
                   tool_name |-> IF Truthy(req.name) THEN req.name
                                 ELSE Str(<<"u","n","k","n","o","w","n">>)]

\* a plausible slip: no catch around the body, the error leaves the handler
LintOutcomeNoCatch(req, reply) ==
    LET try == LintTry(req, reply)
    IN  IF try.threw
        THEN [kind |-> "thrown", isError |-> TRUE, error |-> try.message]
        ELSE [kind |-> "extraction", isError |-> FALSE,
              tool_name |-> try.tool_name, evaluated_at |-> "now"]

\* handleLint from the point where the awaited upstream call settles, with its catch
LintOutcome(req, reply) ==
    LET try == LintTry(req, reply)
    IN  IF try.threw
        THEN [kind |-> "error", isError |-> TRUE,
              text |-> "Error during extraction: " \o try.message]
        ELSE [kind |-> "extraction", isError |-> FALSE,
              tool_name |-> try.tool_name, evaluated_at |-> "now"]

-----------------------------------------------------------------------------
(* The requests the model offers *)

P_10MB == <<"1","0","M","B"," ","m","a","x">>
P_NoStreaming ==
    <<"n","o"," ","s","t","r","e","a","m","i","n","g"," ","s","u","p","p","o","r","t">>
P_Streaming == <<"S","t","r","e","a","m","i","n","g">>
P_Max == <<"m","a","x">>

Phrases == {P_10MB, P_NoStreaming, P_Streaming}

RECURSIVE SeqsUpTo(_, _)
SeqsUpTo(S, n) ==
    IF n = 0 THEN {<<>>}
    ELSE LET shorter == SeqsUpTo(S, n - 1)
         IN  shorter \cup {Append(q, x) : q \in {q \in shorter : Len(q) = n - 1}, x \in S}

Values ==
    {Undefined, Null, Zero, EmptyObject}
    \cup {Str(s) : s \in Phrases \cup {<<>>, P_Max}}
    \cup {Arr(a) : a \in SeqsUpTo(Phrases, MaxItems)}

AllAbsent == [d \in DimSet |-> Undefined]

Wrapper(fields) ==
    [t |-> "object", extraction |-> [t |-> "object", fields |-> fields]]
Intended(fields) == [t |-> "object", fields |-> fields]

CompareRequest(extracted, intended) ==
    [tool |-> "compare", hasArgs |-> TRUE, extracted |-> extracted, intended |-> intended]

\* one dimension holds any pair of values, the others are missing on both sides
FocusRequests ==
    {CompareRequest(Wrapper([AllAbsent EXCEPT ![d] = e]),
                    Intended([AllAbsent EXCEPT ![d] = i])) :
        d \in DimSet, e \in Values, i \in Values}

\* representative pairs (extracted value, intended value), one for each way a
\* dimension can come out
Cases ==
    {<<Undefined, Undefined>>,
     <<Null, Str(P_Streaming)>>,
     <<Arr(<<P_10MB>>), Arr(<<P_10MB, P_Streaming>>)>>,
     <<Str(P_10MB), Arr(<<P_10MB>>)>>}

\* every dimension holds one of the representative pairs, independently
CrossRequests ==
    {CompareRequest(Wrapper([d \in DimSet |-> c[d][1]]),
                    Intended([d \in DimSet |-> c[d][2]])) :
        c \in [DimSet -> Cases]}

\* arguments that lack the expected nested shape
ShapeFields ==
    {AllAbsent,
     [AllAbsent EXCEPT !["capability"] = Str(P_Streaming)],
     [AllAbsent EXCEPT !["constraints"] = Arr(<<P_10MB>>)]}

Extracteds ==
    {[t |-> "undefined"], [t |-> "null"], [t |-> "string"]}
    \cup {[t |-> "object", extraction |-> [t |-> x]] : x \in {"undefined", "null", "string"}}
    \cup {Wrapper(f) : f \in ShapeFields}

Intendeds ==
    {[t |-> "undefined"], [t |-> "null"], [t |-> "string"]}
    \cup {Intended(f) : f \in ShapeFields}

ShapeRequests ==
    {CompareRequest(e, i) : e \in Extracteds, i \in Intendeds}
    \cup {[tool |-> "compare", hasArgs |-> FALSE]}

CompareRequests == FocusRequests \cup CrossRequests \cup ShapeRequests

Names == {Undefined, Str(<<>>), Str(<<"z","o","d">>)}

LintRequests ==
    {[tool |-> "lint", hasArgs |-> TRUE, name |-> n] : n \in Names}
    \cup {[tool |-> "lint", hasArgs |-> FALSE]}

Replies ==
    {[kind |-> "rejected", message |-> m] : m \in {"Connection error.", "401 invalid x-api-key"}}
    \cup {[kind |-> "resolved", blocks |-> 0]}
    \cup {[kind |-> "resolved", blocks |-> 1, text |-> x] : x \in SeqsUpTo(ReplyChars, MaxReplyLen)}

OtherTools == {"format"}

-----------------------------------------------------------------------------
(* The server: one tool call at a time *)

None == [kind |-> "none", tool |-> "none"]

Init ==
    /\ pc = "idle"
    /\ request = None
    /\ upstream = None
    /\ upstreamCalls = 0
    /\ response = None

\* CallToolRequest with name "compare": handleCompare runs to its end
CallCompare ==
    \E req \in CompareRequests :
        /\ pc = "idle"
        /\ request' = req
        /\ response' = HandleCompare(req)
        /\ pc' = "done"
        /\ UNCHANGED <<upstream, upstreamCalls>>

\* CallToolRequest with name "lint": handleLint destructures its arguments and
\* starts the one upstream call, or raises on absent arguments
CallLint ==
    \E req \in LintRequests :
        /\ pc = "idle"
        /\ request' = req
        /\ IF req.hasArgs
           THEN /\ upstreamCalls' = upstreamCalls + 1
                /\ pc' = "awaiting"
                /\ UNCHANGED response
           ELSE /\ response' = [kind |-> "thrown", isError |-> TRUE, error |-> "TypeError"]
                /\ pc' = "done"
                /\ UNCHANGED upstreamCalls
        /\ UNCHANGED upstream

\* the awaited messages.create settles and handleLint runs to its end
UpstreamSettles ==
    \E reply \in Replies :
        /\ pc = "awaiting"
        /\ upstream' = reply
        /\ response' = LintOutcome(request, reply)
        /\ pc' = "done"
        /\ UNCHANGED <<request, upstreamCalls>>

\* CallToolRequest with any other name
CallUnknown ==
    \E name \in OtherTools :
        /\ pc = "idle"
        /\ request' = [tool |-> name, hasArgs |-> TRUE]
        /\ response' = [kind |-> "error", isError |-> TRUE, text |-> "Unknown tool: " \o name]
        /\ pc' = "done"
        /\ UNCHANGED <<upstream, upstreamCalls>>

\* the response leaves; nothing is kept across calls
Reply ==
    /\ pc = "done"
    /\ pc' = "idle"
    /\ request' = None
    /\ upstream' = None
    /\ upstreamCalls' = 0
    /\ response' = None

Next == CallCompare \/ CallLint \/ UpstreamSettles \/ CallUnknown \/ Reply

Spec == Init /\ [][Next]_vars

-----------------------------------------------------------------------------
(* Vocabulary of the properties *)

\* a compare call has returned a result
Returned == pc = "done" /\ request.tool = "compare" /\ response.kind = "result"

\* the values the two sides hold for a dimension in the request of the current call
ExtValue(d) == ExtOf(request.extracted, d)
IntValue(d) == IntOf(request.intended, d)

\* the entries of the returned mismatches that name dimension d
EntriesFor(d) ==
    {k \in 1..Len(response.result.mismatches) : response.result.mismatches[k].dimension = d}

\* a missing key, null, the empty string and the number zero
AbsentValue(v) == v \in {Undefined, Null, Str(<<>>), Zero}

\* a sequence of strings with no element
EmptySequence(v) == v = Arr(<<>>)

\* the maximal runs of word characters of s that are 4 or more characters long
WordRuns(s) ==
    {SubSeq(s, i, j) : <<i, j>> \in
        {p \in WordStarts(s) \X WordEnds(s) :
            /\ p[1] + 3 <= p[2]
            /\ \A k \in p[1]..p[2] : s[k] \in WordChars}}

Tokens(v) == WordRuns(ToLowerCase(Stringify(v)))

\* the number of hundredths a rendering d.dd stands for, -1 when it has another form
Rendered(text) ==
    LET digit(c) == CHOOSE n \in 0..9 : Digits[n + 1] = c
        isDigit(c) == \E n \in 0..9 : Digits[n + 1] = c
    IN  IF /\ Len(text) = 4
           /\ text[2] = "."
           /\ isDigit(text[1]) /\ isDigit(text[3]) /\ isDigit(text[4])
        THEN 100 * digit(text[1]) + 10 * digit(text[3]) + digit(text[4])
        ELSE -1

\* the dimension names of a set, in the canonical order, joined by ", "
RECURSIVE CanonicalList(_, _)
CanonicalList(S, k) ==
    IF k > Len(Dimensions) THEN ""
    ELSE LET rest == CanonicalList(S, k + 1)
         IN  IF Dimensions[k] \notin S THEN rest
             ELSE IF rest = "" THEN Dimensions[k]
             ELSE Dimensions[k] \o ", " \o rest

\* the documented example: constraints ["10MB max"] against
\* ["10MB max", "no streaming support"], every other dimension absent on both sides
ReadmeExample ==
    CompareRequest(Wrapper([AllAbsent EXCEPT !["constraints"] = Arr(<<P_10MB>>)]),
                   Intended([AllAbsent EXCEPT !["constraints"] =
                                Arr(<<P_10MB, P_NoStreaming>>)]))

-----------------------------------------------------------------------------
(* Properties *)

\* C1: every compare result has aligned_dimensions + length(mismatches) =
\* total_dimensions = 6, and each of the six dimensions is counted once: at most one
\* entry of mismatches names it, and the aligned count is the number of dimensions
\* no entry names.
C1_CountsAddUp ==
    Returned =>
        LET r == response.result
        IN  /\ r.total_dimensions = 6
            /\ r.aligned_dimensions + Len(r.mismatches) = r.total_dimensions
            /\ \A d \in DimSet : Cardinality(EntriesFor(d)) <= 1
            /\ \A k \in 1..Len(r.mismatches) : r.mismatches[k].dimension \in DimSet
            /\ r.aligned_dimensions = Cardinality({d \in DimSet : EntriesFor(d) = {}})

\* C1 witness: a result with three aligned dimensions and three mismatches
C1_Witness ==
    /\ Returned
    /\ response.result.aligned_dimensions = 3
    /\ Len(response.result.mismatches) = 3

\* C2 as stated: a compare call with any pair of arguments, also null, absent or
\* not an object, returns a result and never raises.
C2_NeverRaises ==
    (pc = "done" /\ request.tool = "compare" /\ request.hasArgs)
        => response.kind = "result"

\* C3: a dimension absent on both sides is aligned and has no Mismatch; when all
\* six are absent on both sides the result is 6 aligned and no mismatches.
C3_BothAbsentAligned ==
    Returned =>
        LET r == response.result
            silent == {d \in DimSet : AbsentValue(ExtValue(d)) /\ AbsentValue(IntValue(d))}
        IN  /\ \A d \in silent : EntriesFor(d) = {}
            /\ r.aligned_dimensions >= Cardinality(silent)
            /\ silent = DimSet => r.aligned_dimensions = 6 /\ r.mismatches = <<>>

\* C3 witness: null on one side and the empty string on the other, and the result
\* is 6 aligned
C3_Witness ==
    /\ Returned
    /\ \E d \in DimSet : ExtValue(d) = Null /\ IntValue(d) = Str(<<>>)
    /\ response.result.aligned_dimensions = 6
    /\ response.result.mismatches = <<>>

\* C4: a dimension with exactly one side present has exactly one Mismatch, with
\* issue missing_in_extraction when the extracted value is the absent one and
\* missing_in_intended otherwise, the present value copied, the absent side null
\* and no similarity; the dimension is not among the aligned ones.
C4_OneSided ==
    Returned =>
        LET r == response.result
            oneSided == {d \in DimSet : AbsentValue(ExtValue(d)) # AbsentValue(IntValue(d))}
        IN  /\ \A d \in oneSided :
                /\ Cardinality(EntriesFor(d)) = 1
                /\ LET m == r.mismatches[CHOOSE k \in EntriesFor(d) : TRUE]
                   IN  /\ m.issue = IF AbsentValue(ExtValue(d)) THEN "missing_in_extraction"
                                                           ELSE "missing_in_intended"
                       /\ m.extracted = IF AbsentValue(ExtValue(d)) THEN Null ELSE ExtValue(d)
                       /\ m.intended = IF AbsentValue(IntValue(d)) THEN Null ELSE IntValue(d)
                       /\ "similarity" \notin DOMAIN m
            /\ r.aligned_dimensions <= Cardinality(DimSet \ oneSided)

\* C4 witness: both one-sided issue kinds have been recorded, one with the empty
\* string as the absent side
C4_Witness ==
    /\ Returned
    /\ \E d \in DimSet :
          /\ ExtValue(d) = Str(<<>>) /\ ~AbsentValue(IntValue(d))
          /\ \E k \in EntriesFor(d) : response.result.mismatches[k].issue = "missing_in_extraction"

\* C5: a dimension present on both sides is aligned exactly when the Jaccard
\* similarity of the two token sets is above one half; at exactly one half it has
\* a Mismatch with issue mismatch.
C5_StrictThreshold ==
    Returned =>
        \A d \in DimSet :
            (~AbsentValue(ExtValue(d)) /\ ~AbsentValue(IntValue(d))) =>
                LET common == Cardinality(Tokens(ExtValue(d)) \cap Tokens(IntValue(d)))
                    all == Cardinality(Tokens(ExtValue(d)) \cup Tokens(IntValue(d)))
                IN  /\ (EntriesFor(d) = {}) <=> (2 * common > all)
                    /\ \A k \in EntriesFor(d) : response.result.mismatches[k].issue = "mismatch"
                    /\ (all > 0 /\ 2 * common = all) =>
                          \E k \in EntriesFor(d) :
                              response.result.mismatches[k].similarity = <<"0", ".", "5", "0">>

\* C5 witness: a dimension whose token sets overlap by exactly one half
C5_Witness ==
    /\ Returned
    /\ \E d \in DimSet :
          /\ ~AbsentValue(ExtValue(d)) /\ ~AbsentValue(IntValue(d))
          /\ Cardinality(Tokens(ExtValue(d)) \cup Tokens(IntValue(d))) = 2
          /\ Cardinality(Tokens(ExtValue(d)) \cap Tokens(IntValue(d))) = 1
          /\ EntriesFor(d) # {}

\* a string or an array of strings that is not empty
NonEmptyValue(v) ==
    \/ v.t = "string" /\ Len(v.items[1]) > 0
    \/ v.t = "array" /\ Len(v.items) > 0

\* C6 as stated: two identical non-empty values on a dimension are always aligned.
C6_IdenticalAligned ==
    Returned =>
        \A d \in DimSet :
            (ExtValue(d) = IntValue(d) /\ NonEmptyValue(ExtValue(d))) => EntriesFor(d) = {}

\* C6 amended: two identical non-empty values on a dimension whose serialization
\* holds at least one token have similarity 1.0 and are aligned; two identical
\* non-empty values without a token have similarity 0 and a Mismatch with issue
\* mismatch.
C6_IdenticalWithTokensAligned ==
    Returned =>
        \A d \in DimSet :
            (ExtValue(d) = IntValue(d) /\ NonEmptyValue(ExtValue(d))) =>
                LET similarity == Similarity(TermsOf(ExtValue(d)), TermsOf(IntValue(d)))
                IN  IF Tokens(ExtValue(d)) # {}
                    THEN /\ EntriesFor(d) = {}
                         /\ similarity.num = similarity.den
                    ELSE /\ similarity.num = 0
                         /\ \E k \in EntriesFor(d) :
                               /\ response.result.mismatches[k].issue = "mismatch"
                               /\ response.result.mismatches[k].similarity
                                     = <<"0", ".", "0", "0">>

\* C6 witness: an array of two strings on both sides, aligned
C6_Witness ==
    /\ Returned
    /\ \E d \in DimSet :
          /\ ExtValue(d) = IntValue(d)
          /\ ExtValue(d).t = "array" /\ Len(ExtValue(d).items) = 2
          /\ EntriesFor(d) = {}

\* C7: the recommendation is the success string exactly when mismatches is empty;
\* otherwise it names the mismatched dimensions once each, joined by ", ", in the
\* canonical order, and the mismatches sequence is in that order too.
C7_Recommendation ==
    Returned =>
        LET r == response.result
            named == {r.mismatches[k].dimension : k \in 1..Len(r.mismatches)}
        IN  /\ (r.recommendation = "Documentation aligns well with intent")
                  <=> (Len(r.mismatches) = 0)
            /\ Len(r.mismatches) > 0 =>
                  r.recommendation = "Review these dimensions: " \o CanonicalList(named, 1)
            /\ [k \in 1..Len(r.mismatches) |-> r.mismatches[k].dimension]
                  = SelectSeq(Dimensions, LAMBDA d : d \in named)

\* C7 witness: a result whose mismatches are not adjacent dimensions
C7_Witness ==
    /\ Returned
    /\ Len(response.result.mismatches) = 2
    /\ response.result.mismatches[1].dimension = "inputs"
    /\ response.result.mismatches[2].dimension = "constraints"

WithoutExt(d) ==
    [request EXCEPT !.extracted.extraction.fields[d] = Undefined]
WithoutInt(d) ==
    [request EXCEPT !.intended.fields[d] = Undefined]

\* C9 as stated: an empty sequence on one side of a dimension gives the same
\* aligned count and the same mismatch entries as omitting the key on that side.
C9_EmptyLikeMissing ==
    Returned =>
        \A d \in DimSet :
            /\ EmptySequence(ExtValue(d)) => response.result = CompareResult(WithoutExt(d))
            /\ EmptySequence(IntValue(d)) => response.result = CompareResult(WithoutInt(d))

\* the reply text cannot be parsed, neither as it is nor from its first "{" to its last "}"
Unparseable(text) ==
    /\ ~JsonParse(text).ok
    /\ HasJsonMatch(text) => ~JsonParse(JsonMatch(text)).ok

\* C10: a lint call whose upstream call failed, or whose reply could not be parsed
\* even from its brace-delimited substring, ends in an error-flagged response with
\* a message; the upstream call was made once, and nothing is raised.
C10_LintFailures ==
    /\ upstreamCalls <= 1
    /\ (pc = "done" /\ request.tool = "lint" /\ upstream.kind # "none") =>
          /\ upstreamCalls = 1
          /\ response.kind # "thrown"
          /\ upstream.kind = "rejected" =>
                /\ response.kind = "error" /\ response.isError
                /\ response.text = "Error during extraction: " \o upstream.message
          /\ (upstream.kind = "resolved" /\ upstream.blocks = 1 /\ Unparseable(upstream.text)) =>
                /\ response.kind = "error" /\ response.isError
                /\ response.text \in
                      {"Error during extraction: Could not parse extraction response as JSON",
                       "Error during extraction: Unexpected token in JSON"}

\* C10 witness: a reply whose brace-delimited substring was tried and did not parse
C10_Witness ==
    /\ pc = "done" /\ request.tool = "lint"
    /\ upstream.kind = "resolved" /\ upstream.blocks = 1
    /\ HasJsonMatch(upstream.text) /\ Unparseable(upstream.text)
    /\ response.isError

=============================================================================
